---- MODULE Spec2Model ----
(***************************************************************************)
(* mini_evm: a stack-based contract VM (src/src/vm.py) driven by deploys   *)
(* and transactions (src/src/demo_mini_evm.py).                            *)
(*                                                                         *)
(* One action per interpreter-loop iteration of VM._exec_contract_frame,   *)
(* one for World.deploy and one for the entry of VM.execute_transaction.   *)
(* The step that ends the root frame also performs the commit and builds   *)
(* the result dict; a step that raises unwinds every frame and runs the    *)
(* except clause of execute_transaction.  The wall-clock "duration_s"      *)
(* field of the result is not modelled.                                    *)
(*                                                                         *)
(* An instruction line is a sequence of chunks: a chunk is either a run of *)
(* whitespace (" ") or a word; numerals are words such as "2" or "-5".     *)
(***************************************************************************)
EXTENDS Integers, Sequences, FiniteSets, TLC

VARIABLES
    contracts,   \* World.contracts: address -> [address, code, storage]
    phase,       \* "idle" | "running": is execute_transaction on the call stack
    tx,          \* arguments of the current / last execute_transaction
    pre,         \* storage of every contract when the transaction started
    snapshot,    \* the staged copy: address -> storage
    frames,      \* activations of _exec_contract_frame, root first
    call_trace,  \* the shared call_trace list
    result,      \* dict returned by the last execute_transaction
    raised,      \* exception that escaped the last operation ("" if none)
    lastOp,      \* "none" | "deploy" | "tx"
    lastError,   \* message of the VMExecutionError caught last ("" if none)
    rootLeft,    \* gas_remaining of the root frame when it returned
    txCount,     \* transactions started so far
    suite        \* which family of inputs the driver draws from

vars == <<contracts, phase, tx, pre, snapshot, frames, call_trace, result,
          raised, lastOp, lastError, rootLeft, txCount, suite>>

MaxTx == 2

------------------------------------------------------------------------------
(* Maps (Python dicts)                                                     *)

EmptyMap == [k \in {} |-> 0]

Get(m, k, d) == IF k \in DOMAIN m THEN m[k] ELSE d

Put(m, k, v) == [x \in (DOMAIN m) \cup {k} |-> IF x = k THEN v ELSE m[x]]

------------------------------------------------------------------------------
(* Text handling                                                           *)

WS == " "

\* str.strip(): drop leading and trailing whitespace chunks
RECURSIVE LStrip(_)
LStrip(line) ==
    IF line # <<>> /\ Head(line) = WS THEN LStrip(Tail(line)) ELSE line

RECURSIVE RStrip(_)
RStrip(line) ==
    IF line # <<>> /\ line[Len(line)] = WS
    THEN RStrip(SubSeq(line, 1, Len(line) - 1))
    ELSE line

Strip(line) == RStrip(LStrip(line))

\* str.split(): the words, whitespace removed
Split(line) == SelectSeq(line, LAMBDA c : c # WS)

\* str.upper() on the opcode words the inputs use
UpperTable ==
    [w \in {"push", "load", "return", "Store"} |->
        CASE w = "push" -> "PUSH"
          [] w = "load" -> "LOAD"
          [] w = "return" -> "RETURN"
          [] w = "Store" -> "STORE"]

Upper(w) == IF w \in DOMAIN UpperTable THEN UpperTable[w] ELSE w

\* int(): the decimal numerals the inputs use; any other word raises ValueError
Numerals ==
    [w \in {"-5", "-1", "0", "1", "2", "3", "4", "5", "6", "7", "8", "9",
            "10", "20", "30", "60", "100", "200", "999"} |->
        CASE w = "-5" -> 0 - 5
          [] w = "-1" -> 0 - 1
          [] w = "0" -> 0
          [] w = "1" -> 1
          [] w = "2" -> 2
          [] w = "3" -> 3
          [] w = "4" -> 4
          [] w = "5" -> 5
          [] w = "6" -> 6
          [] w = "7" -> 7
          [] w = "8" -> 8
          [] w = "9" -> 9
          [] w = "10" -> 10
          [] w = "20" -> 20
          [] w = "30" -> 30
          [] w = "60" -> 60
          [] w = "100" -> 100
          [] w = "200" -> 200
          [] w = "999" -> 999]

IsIntText(w) == w \in DOMAIN Numerals

IntOf(w) == Numerals[w]

------------------------------------------------------------------------------
(* Gas table                                                               *)

OPCOST ==
    [op \in {"PUSH", "POP", "ADD", "SUB", "MUL", "DIV", "LOAD", "STORE",
             "CALL", "RETURN", "LOG"} |->
        CASE op = "PUSH" -> 1
          [] op = "POP" -> 1
          [] op = "ADD" -> 3
          [] op = "SUB" -> 3
          [] op = "MUL" -> 5
          [] op = "DIV" -> 5
          [] op = "LOAD" -> 5
          [] op = "STORE" -> 20
          [] op = "CALL" -> 10
          [] op = "RETURN" -> 0
          [] op = "LOG" -> 1]

\* self.OPCOST.get(op, 1)
OpCost(op) == Get(OPCOST, op, 1)

------------------------------------------------------------------------------
(* Contracts, World                                                        *)

\* Contract(address, code): the code list is copied, storage starts empty
Contract(address, code) ==
    [address |-> address, code |-> code, storage |-> EmptyMap]

\* contract_addr in self.world.contracts
Deployed(address) == address \in DOMAIN contracts

\* {addr: c.storage for addr, c in world.contracts.items()}
Storages == [a \in DOMAIN contracts |-> contracts[a].storage]

------------------------------------------------------------------------------
(* Frames                                                                  *)

\* the locals of a fresh _exec_contract_frame activation
NewFrame(contract_addr, caller, gas_limit, stack) ==
    [addr |-> contract_addr, caller |-> caller, gas_limit |-> gas_limit,
     gas_remaining |-> gas_limit, ip |-> 0, stack |-> stack,
     op_counts |-> EmptyMap]

Top == frames[Len(frames)]

Code == contracts[Top.addr].code

Running == phase = "running" /\ frames # <<>>

\* the loop condition `ip < len(code)` holds and the line is not blank
AtInstr == Running /\ Top.ip < Len(Code) /\ Strip(Code[Top.ip + 1]) # <<>>

Parts == Split(Strip(Code[Top.ip + 1]))

Op == Upper(Parts[1])

\* charge(op): debit the cost and count the opcode
Charge(f, op) ==
    [f EXCEPT !.gas_remaining = @ - OpCost(op),
              !.op_counts = Put(@, op, Get(@, op, 0) + 1)]

Charged == Charge(Top, Op)

\* a test that also fails a frame left with exactly 0
OutOfGasAtZero(f) == f.gas_remaining <= 0

\* if gas_remaining < 0: raise VMExecutionError("Out of gas")
OutOfGas(f) == f.gas_remaining < 0

\* the popped values left in popping order
NoReverse(s) == s

\* stack.pop() applied n times: the popped values, top of stack first
PopN(stack, n) == [i \in 1..n |-> stack[Len(stack) - i + 1]]

Reverse(s) == [i \in 1..Len(s) |-> s[Len(s) - i + 1]]

DropN(stack, n) == SubSeq(stack, 1, Len(stack) - n)

\* for k, v in child_op_counts.items(): op_counts[k] += v
MergeCounts(mine, child) ==
    [k \in (DOMAIN mine) \cup (DOMAIN child) |->
        Get(mine, k, 0) + Get(child, k, 0)]

------------------------------------------------------------------------------
(* Outcomes of a step                                                      *)

NoResult ==
    [success |-> FALSE, return |-> <<>>, gas_used |-> 0,
     op_counts |-> EmptyMap, call_trace |-> <<>>]

\* a failure dict whose gas_used is what the root frame had consumed
FailureResultPartial(gas_limit, trace) ==
    [success |-> FALSE, return |-> <<>>,
     gas_used |-> IF frames = <<>> THEN 0 ELSE gas_limit - frames[1].gas_remaining,
     op_counts |-> EmptyMap, call_trace |-> trace]

\* the dict built on the except path; return None is the empty sequence
FailureResultFor(gas_limit, trace) ==
    [success |-> FALSE, return |-> <<>>, gas_used |-> gas_limit,
     op_counts |-> EmptyMap, call_trace |-> trace]

FailureResult == FailureResultFor(tx.gas_limit, call_trace)

\* a commit that writes back only the storage of the transaction's target
CommitRootOnly(snap) ==
    [a \in DOMAIN contracts |->
        IF a = tx.to
        THEN [contracts[a] EXCEPT !.storage = snap[a]]
        ELSE contracts[a]]

\* for addr in snapshot: self.world.contracts[addr].storage = snapshot[addr]
Commit(snap) ==
    [a \in DOMAIN contracts |->
        IF a \in DOMAIN snap
        THEN [contracts[a] EXCEPT !.storage = snap[a]]
        ELSE contracts[a]]

\* an except clause that writes the staged storage back before reporting
RaiseVMCommitting(msg) ==
    /\ phase' = "idle"
    /\ frames' = <<>>
    /\ result' = FailureResult
    /\ raised' = ""
    /\ lastOp' = "tx"
    /\ lastError' = msg
    /\ contracts' = Commit(snapshot)
    /\ UNCHANGED <<tx, pre, snapshot, call_trace, rootLeft, txCount, suite>>

\* raise VMExecutionError(msg) in any frame: caught in execute_transaction
RaiseVM(msg) ==
    /\ phase' = "idle"
    /\ frames' = <<>>
    /\ result' = FailureResult
    /\ raised' = ""
    /\ lastOp' = "tx"
    /\ lastError' = msg
    /\ UNCHANGED <<contracts, tx, pre, snapshot, call_trace, rootLeft,
                   txCount, suite>>

\* any other exception (int() on a non-numeral) escapes execute_transaction
RaisePy(exc) ==
    /\ phase' = "idle"
    /\ frames' = <<>>
    /\ result' = NoResult
    /\ raised' = exc
    /\ lastOp' = "tx"
    /\ lastError' = ""
    /\ UNCHANGED <<contracts, tx, pre, snapshot, call_trace, rootLeft,
                   txCount, suite>>

\* an instruction that also writes the staged storage through to World
ContinueWriteThrough(f, snap, trace) ==
    /\ frames' = [frames EXCEPT ![Len(frames)] = [f EXCEPT !.ip = @ + 1]]
    /\ snapshot' = snap
    /\ call_trace' = trace
    /\ contracts' = Commit(snap)
    /\ UNCHANGED <<phase, tx, pre, result, raised, lastOp,
                   lastError, rootLeft, txCount, suite>>

\* the instruction completed: the top frame, staged storage and trace move on
Continue(f, snap, trace) ==
    /\ frames' = [frames EXCEPT ![Len(frames)] = [f EXCEPT !.ip = @ + 1]]
    /\ snapshot' = snap
    /\ call_trace' = trace
    /\ UNCHANGED <<contracts, phase, tx, pre, result, raised, lastOp,
                   lastError, rootLeft, txCount, suite>>

\* gas_used = gas_limit - gas_remaining
GasUsed(f) == f.gas_limit - f.gas_remaining

\* the dict built on the success path
SuccessResult(ret, gas_used, op_counts) ==
    [success |-> TRUE, return |-> <<ret>>, gas_used |-> gas_used,
     op_counts |-> op_counts, call_trace |-> call_trace]

\* the call event appended by the caller once the callee has returned
CallEvent(caller, callee, gas_amount, child_gas_used, ret) ==
    [type |-> "call", caller |-> caller, callee |-> callee,
     gas_provided |-> gas_amount, gas_used |-> child_gas_used,
     return |-> ret]

LogEvent(contract_addr, val) ==
    [type |-> "log", contract |-> contract_addr, value |-> val]

\* a resume that keeps the whole reservation: nothing is refunded
ResumeNoRefund(p, child, ret) ==
    [p EXCEPT !.op_counts = MergeCounts(@, child.op_counts),
              !.stack = Append(@, ret),
              !.ip = @ + 1]

\* a resume that pushes 0 whatever the callee returned
ResumeZero(p, child, ret) ==
    [p EXCEPT !.gas_remaining = @ + (child.gas_limit - GasUsed(child)),
              !.op_counts = MergeCounts(@, child.op_counts),
              !.stack = Append(@, 0),
              !.ip = @ + 1]

\* the caller's locals after the callee returned (ret, child_gas_used, counts)
Resume(p, child, ret) ==
    [p EXCEPT !.gas_remaining = @ + (child.gas_limit - GasUsed(child)),
              !.op_counts = MergeCounts(@, child.op_counts),
              !.stack = Append(@, ret),
              !.ip = @ + 1]

\* a return whose call event is put at the front of the trace
ReturnFromPrepend(f, ret) ==
    IF Len(frames) = 1
    THEN /\ contracts' = Commit(snapshot)
         /\ phase' = "idle"
         /\ frames' = <<>>
         /\ result' = SuccessResult(ret, GasUsed(f), f.op_counts)
         /\ raised' = ""
         /\ lastOp' = "tx"
         /\ lastError' = ""
         /\ rootLeft' = f.gas_remaining
         /\ UNCHANGED <<tx, pre, snapshot, call_trace, txCount, suite>>
    ELSE LET p == frames[Len(frames) - 1] IN
         /\ frames' = Append(SubSeq(frames, 1, Len(frames) - 2),
                             Resume(p, f, ret))
         /\ call_trace' =
                <<CallEvent(p.addr, f.addr, f.gas_limit, GasUsed(f), ret)>>
                \o call_trace
         /\ UNCHANGED <<contracts, phase, tx, pre, snapshot, result, raised,
                        lastOp, lastError, rootLeft, txCount, suite>>

\* `return ret, gas_used, op_counts` of frame f
ReturnFrom(f, ret) ==
    IF Len(frames) = 1
    THEN /\ contracts' = Commit(snapshot)
         /\ phase' = "idle"
         /\ frames' = <<>>
         /\ result' = SuccessResult(ret, GasUsed(f), f.op_counts)
         /\ raised' = ""
         /\ lastOp' = "tx"
         /\ lastError' = ""
         /\ rootLeft' = f.gas_remaining
         /\ UNCHANGED <<tx, pre, snapshot, call_trace, txCount, suite>>
    ELSE LET p == frames[Len(frames) - 1] IN
         /\ frames' = Append(SubSeq(frames, 1, Len(frames) - 2),
                             Resume(p, f, ret))
         /\ call_trace' = Append(call_trace,
                CallEvent(p.addr, f.addr, f.gas_limit, GasUsed(f), ret))
         /\ UNCHANGED <<contracts, phase, tx, pre, snapshot, result, raised,
                        lastOp, lastError, rootLeft, txCount, suite>>

\* entry of _exec_contract_frame for a CALL: the lookup, then the new frame
Enter(parent, callee, gas_amount, args) ==
    IF ~Deployed(callee)
    THEN RaiseVM("Contract not found")
    ELSE /\ frames' = Append([frames EXCEPT ![Len(frames)] = parent],
                             NewFrame(callee, parent.addr, gas_amount, args))
         /\ UNCHANGED <<contracts, phase, tx, pre, snapshot, call_trace,
                        result, raised, lastOp, lastError, rootLeft, txCount,
                        suite>>

------------------------------------------------------------------------------
(* Inputs: the programs the driver deploys and the transactions it sends   *)

I1(op) == <<op>>

I2(op, a) == <<op, WS, a>>

I4(op, a, b, c) == <<op, WS, a, WS, b, WS, c>>

\* Contract A: increments 'counter' by the input arg and returns the new value
contract_a_code ==
    <<I2("LOAD", "counter"), I1("ADD"), I2("STORE", "counter"),
      I2("LOAD", "counter"), I1("RETURN")>>

\* Contract B: calls A with arg 2, multiplies by 10, stores to 'myvalue'
contract_b_code ==
    <<I2("PUSH", "2"), I4("CALL", "A", "200", "1"), I2("PUSH", "10"),
      I1("MUL"), I2("STORE", "myvalue"), I2("LOAD", "myvalue"), I1("RETURN")>>

\* a callee that stores, logs and falls off the end returning 6
good_code ==
    <<I2("PUSH", "5"), I2("STORE", "g"), I2("PUSH", "6"), I1("LOG"),
      I2("PUSH", "6")>>

\* instruction sequences each ending in one kind of failure
BadTails ==
    { <<I1("PUSH")>>,
      <<I2("PUSH", "x")>>,
      <<I1("POP")>>,
      <<I1("ADD")>>,
      <<I2("PUSH", "1"), I2("PUSH", "0"), I1("DIV")>>,
      <<I1("FOO")>>,
      <<I1("LOAD")>>,
      <<I1("STORE")>>,
      <<I2("STORE", "k")>>,
      <<I1("LOG")>>,
      <<I2("CALL", "G")>>,
      <<I4("CALL", "G", "x", "0")>>,
      <<I4("CALL", "G", "0", "x")>>,
      <<I4("CALL", "G", "999", "0")>>,
      <<I4("CALL", "G", "0", "5")>>,
      <<I4("CALL", "Z", "0", "0")>> }

\* stores and logs, then fails
Faulty(tail) ==
    <<I2("PUSH", "7"), I2("STORE", "k"), I2("PUSH", "4"), I1("LOG")>> \o tail

\* stores, calls G (which completes), then calls F
root_code ==
    <<I2("PUSH", "9"), I2("STORE", "r"), I4("CALL", "G", "60", "0"),
      I1("LOG"), I4("CALL", "F", "60", "0"), I1("RETURN")>>

\* an empty program and one holding only blank lines
blank_code == <<<<>>, <<WS>>>>

\* reads a key nothing writes, twice
load_code == <<I2("load", "k"), <<WS, "LOAD", WS, "k", WS>>, I1("return")>>

\* stores under another key, then reads the key nothing writes
store_load_code ==
    <<I2("PUSH", "1"), I2("Store", "j"), I2("LOAD", "k"), I1("RETURN")>>

\* CALL E <gas> 0, twice
Caller(gas) == <<I4("CALL", "E", gas, "0"), I4("CALL", "E", gas, "0")>>

\* push 1, store it under j, read j back and return it
plain_code ==
    <<I2("PUSH", "1"), I2("STORE", "j"), I2("LOAD", "j"), I1("RETURN")>>

\* the same program written with the aliases
alias_code ==
    <<I2("PUSH", "1"), I2("SSTORE", "j"), I2("SLOAD", "j"), I1("RETURN")>>

\* pushes 1 2 3, calls M with the top two, stores what M returns, returns 1
top_code ==
    <<I2("PUSH", "1"), I2("PUSH", "2"), I2("PUSH", "3"),
      I4("CALL", "M", "100", "2"), I2("STORE", "t"), I1("RETURN"),
      I2("PUSH", "4"), I2("STORE", "z")>>

\* subtracts its two arguments, stores the difference, calls N, logs what N
\* returned and ends with ten times the stored difference on the stack
mid_code ==
    <<I1("SUB"), I2("STORE", "t"), I4("CALL", "N", "30", "0"), I1("LOG"),
      I2("LOAD", "t"), I2("PUSH", "10"), I1("MUL")>>

\* logs 8, stores 5 and ends with 6 on the stack
leaf_code ==
    <<I2("PUSH", "8"), I1("LOG"), <<WS>>, I2("PUSH", "5"), I2("STORE", "t"),
      I2("PUSH", "6")>>

\* a contract that counts in its storage and then calls itself
self_code ==
    << <<"LOAD", " ", "n">>, <<"PUSH", " ", "1">>, <<"ADD">>,
       <<"STORE", " ", "n">>, <<"CALL", " ", "S", " ", "30", " ", "0">>,
       <<"LOAD", " ", "n">>, <<"RETURN">> >>

\* a contract that only calls itself, handing over nothing
loop_code == << <<"CALL", " ", "L", " ", "0", " ", "0">> >>

\* two contracts calling each other: U -> V -> U
ping_code == << <<"CALL", " ", "V", " ", "10", " ", "0">> >>
pong_code == << <<"CALL", " ", "U", " ", "0", " ", "0">> >>

\* a contract that stages a write and then applies op to its arguments
calc_code(op) ==
    << <<"PUSH", " ", "9">>, <<"STORE", " ", "w">>, <<op>> >>

ArithOps == {"ADD", "SUB", "MUL", "DIV"}

Suites == {"demo", "faults", "edge", "alias", "nest", "rec", "arith"}

\* the (address, code) pairs World.deploy is called with
Offers(s) ==
    CASE s = "demo" ->
            {<<"A", contract_a_code>>, <<"B", contract_b_code>>,
             <<"B", contract_a_code>>}
      [] s = "faults" ->
            {<<"G", good_code>>, <<"R", root_code>>, <<"F", good_code>>}
            \cup {<<"F", Faulty(t)>> : t \in BadTails}
      [] s = "edge" ->
            {<<"E", <<>>>>, <<"E", blank_code>>, <<"E", load_code>>,
             <<"E", store_load_code>>}
            \cup {<<"C", Caller(g)>> : g \in {"-5", "0", "20"}}
      [] s = "alias" ->
            {<<"P", plain_code>>, <<"P", alias_code>>}
      [] s = "nest" ->
            {<<"T", top_code>>, <<"M", mid_code>>, <<"N", leaf_code>>}
      [] s = "rec" ->
            {<<"S", self_code>>, <<"L", loop_code>>, <<"U", ping_code>>,
             <<"V", pong_code>>}
      [] s = "arith" ->
            {<<"X", calc_code(op)>> : op \in ArithOps}

\* the (to, gas_limit, args) execute_transaction is called with
TxInputs(s) ==
    CASE s = "demo" ->
            [to : {"A", "B"}, caller : {"alice"}, gas_limit : {800, 500},
             args : {<<>>, <<7>>, <<3>>}]
      [] s = "faults" ->
            [to : {"R", "F", "G", "Z"}, caller : {"alice"},
             gas_limit : {300, 40, 23}, args : {<<>>}]
      [] s = "edge" ->
            [to : {"C", "E"}, caller : {"alice"},
             gas_limit : {0 - 1, 0, 10, 29, 30, 50}, args : {<<>>, <<3>>}]
      [] s = "alias" ->
            [to : {"P"}, caller : {"alice"}, gas_limit : {2, 3, 25, 26, 40},
             args : {<<>>}]
      [] s = "nest" ->
            [to : {"T", "M", "N"}, caller : {"alice"}, gas_limit : {200, 110},
             args : {<<>>, <<2, 3>>}]
      [] s = "rec" ->
            [to : {"S", "L", "U", "V"}, caller : {"alice"},
             gas_limit : {10, 20, 100}, args : {<<>>}]
      [] s = "arith" ->
            [to : {"X"}, caller : {"alice"}, gas_limit : {50, 24},
             args : {<<7, 2>>, <<7, 0 - 2>>, <<0 - 7, 2>>, <<0 - 7, 0 - 2>>,
                     <<1, 0>>, <<0, 3>>, <<5>>, <<>>, <<4, 7, 2>>}]

------------------------------------------------------------------------------
(* Actions                                                                 *)

NoTx == [to |-> "", caller |-> "", gas_limit |-> 0, args |-> <<>>]

Init ==
    /\ contracts = EmptyMap
    /\ phase = "idle"
    /\ tx = NoTx
    /\ pre = EmptyMap
    /\ snapshot = EmptyMap
    /\ frames = <<>>
    /\ call_trace = <<>>
    /\ result = NoResult
    /\ raised = ""
    /\ lastOp = "none"
    /\ lastError = ""
    /\ rootLeft = 0
    /\ txCount = 0
    /\ suite \in Suites

\* a deploy without the duplicate-address check
DeployOverwrite(address, code) ==
    /\ phase = "idle"
    /\ lastOp' = "deploy"
    /\ raised' = ""
    /\ contracts' = Put(contracts, address, Contract(address, code))
    /\ UNCHANGED <<phase, tx, pre, snapshot, frames, call_trace, result,
                   lastError, rootLeft, txCount, suite>>

\* World.deploy(address, code)
Deploy(address, code) ==
    /\ phase = "idle"
    /\ lastOp' = "deploy"
    /\ IF address \in DOMAIN contracts
       THEN /\ raised' = "ValueError"
            /\ UNCHANGED contracts
       ELSE /\ raised' = ""
            /\ contracts' = Put(contracts, address, Contract(address, code))
    /\ UNCHANGED <<phase, tx, pre, snapshot, frames, call_trace, result,
                   lastError, rootLeft, txCount, suite>>

DeployAny == \E o \in Offers(suite) : Deploy(o[1], o[2])

\* VM.execute_transaction up to the first loop iteration of the root frame
Execute(t) ==
    /\ phase = "idle"
    /\ txCount < MaxTx
    /\ txCount' = txCount + 1
    /\ tx' = t
    /\ pre' = Storages
    /\ snapshot' = Storages
    /\ call_trace' = <<>>
    /\ lastOp' = "tx"
    /\ raised' = ""
    /\ IF ~Deployed(t.to)
       THEN /\ phase' = "idle"
            /\ frames' = <<>>
            /\ result' = FailureResultFor(t.gas_limit, <<>>)
            /\ lastError' = "Contract not found"
       ELSE /\ phase' = "running"
            /\ frames' = <<NewFrame(t.to, t.caller, t.gas_limit, t.args)>>
            /\ result' = NoResult
            /\ lastError' = ""
    /\ UNCHANGED <<contracts, rootLeft, suite>>

ExecuteAny == \E t \in TxInputs(suite) : Execute(t)

\* a blank line: ip += 1; continue
StepBlank ==
    /\ Running
    /\ Top.ip < Len(Code)
    /\ Strip(Code[Top.ip + 1]) = <<>>
    /\ Continue(Top, snapshot, call_trace)

\* the loop ends without RETURN: return the top of the stack, or 0
StepEnd ==
    /\ Running
    /\ Top.ip >= Len(Code)
    /\ ReturnFrom(Top, IF Top.stack # <<>> THEN Top.stack[Len(Top.stack)] ELSE 0)

StepPush ==
    /\ AtInstr
    /\ Op = "PUSH"
    /\ LET f == Charged IN
       IF OutOfGas(f) THEN RaiseVM("Out of gas")
       ELSE IF Len(Parts) < 2 THEN RaiseVM("PUSH missing argument")
       ELSE IF ~IsIntText(Parts[2]) THEN RaisePy("ValueError")
       ELSE Continue([f EXCEPT !.stack = Append(@, IntOf(Parts[2]))],
                     snapshot, call_trace)

StepPop ==
    /\ AtInstr
    /\ Op = "POP"
    /\ LET f == Charged IN
       IF OutOfGas(f) THEN RaiseVM("Out of gas")
       ELSE IF f.stack = <<>> THEN RaiseVM("POP from empty stack")
       ELSE Continue([f EXCEPT !.stack = DropN(@, 1)], snapshot, call_trace)

\* the operands taken the other way round
ArithSwapped(op, a, b) ==
    CASE op = "ADD" -> a + b
      [] op = "SUB" -> a - b
      [] op = "MUL" -> a * b
      [] op = "DIV" -> IF b = 0 THEN 0 ELSE a \div b

\* b + a, b - a, b * a, b // a with a popped first
Arith(op, a, b) ==
    CASE op = "ADD" -> b + a
      [] op = "SUB" -> b - a
      [] op = "MUL" -> b * a
      [] op = "DIV" -> b \div a

StepArith ==
    /\ AtInstr
    /\ Op \in {"ADD", "SUB", "MUL", "DIV"}
    /\ LET f == Charged
           n == Len(f.stack)
       IN
       IF OutOfGas(f) THEN RaiseVM("Out of gas")
       ELSE IF n < 2 THEN RaiseVM("needs two operands")
       ELSE IF Op = "DIV" /\ f.stack[n] = 0 THEN RaiseVM("Division by zero")
       ELSE Continue([f EXCEPT !.stack =
                         Append(DropN(@, 2), Arith(Op, @[n], @[n - 1]))],
                     snapshot, call_trace)

\* a LOAD that files the default under the key it read
StepLoadDefaulting ==
    /\ AtInstr
    /\ Op \in {"LOAD", "SLOAD"}
    /\ LET f == Charged IN
       IF OutOfGas(f) THEN RaiseVM("Out of gas")
       ELSE IF Len(Parts) < 2 THEN RaiseVM("LOAD missing key")
       ELSE Continue([f EXCEPT !.stack =
                         Append(@, Get(snapshot[f.addr], Parts[2], 0))],
                     [snapshot EXCEPT ![f.addr] =
                         Put(@, Parts[2], Get(@, Parts[2], 0))],
                     call_trace)

StepLoad ==
    /\ AtInstr
    /\ Op \in {"LOAD", "SLOAD"}
    /\ LET f == Charged IN
       IF OutOfGas(f) THEN RaiseVM("Out of gas")
       ELSE IF Len(Parts) < 2 THEN RaiseVM("LOAD missing key")
       ELSE Continue([f EXCEPT !.stack =
                         Append(@, Get(snapshot[f.addr], Parts[2], 0))],
                     snapshot, call_trace)

\* a STORE that writes into the storage of the transaction's target
StepStoreRoot ==
    /\ AtInstr
    /\ Op \in {"STORE", "SSTORE"}
    /\ LET f == Charged IN
       IF OutOfGas(f) THEN RaiseVM("Out of gas")
       ELSE IF Len(Parts) < 2 THEN RaiseVM("STORE missing key")
       ELSE IF f.stack = <<>> THEN RaiseVM("STORE needs a value on stack")
       ELSE Continue([f EXCEPT !.stack = DropN(@, 1)],
                     [snapshot EXCEPT ![tx.to] =
                         Put(@, Parts[2], f.stack[Len(f.stack)])],
                     call_trace)

StepStore ==
    /\ AtInstr
    /\ Op \in {"STORE", "SSTORE"}
    /\ LET f == Charged IN
       IF OutOfGas(f) THEN RaiseVM("Out of gas")
       ELSE IF Len(Parts) < 2 THEN RaiseVM("STORE missing key")
       ELSE IF f.stack = <<>> THEN RaiseVM("STORE needs a value on stack")
       ELSE Continue([f EXCEPT !.stack = DropN(@, 1)],
                     [snapshot EXCEPT ![f.addr] =
                         Put(@, Parts[2], f.stack[Len(f.stack)])],
                     call_trace)

StepLog ==
    /\ AtInstr
    /\ Op = "LOG"
    /\ LET f == Charged IN
       IF OutOfGas(f) THEN RaiseVM("Out of gas")
       ELSE IF f.stack = <<>> THEN RaiseVM("LOG empty stack")
       ELSE Continue([f EXCEPT !.stack = DropN(@, 1)], snapshot,
                     Append(call_trace,
                            LogEvent(f.addr, f.stack[Len(f.stack)])))

\* a check that also refuses a gas_amount equal to the remaining gas
CallGasShortStrict(gas_remaining, gas_amount) == gas_remaining <= gas_amount

\* if gas_remaining < gas_amount
CallGasShort(gas_remaining, gas_amount) == gas_remaining < gas_amount

\* range(nargs) is empty for a negative nargs
Times(nargs) == IF nargs < 0 THEN 0 ELSE nargs

\* CALL <addr> <gas_amount> <nargs>, up to the callee's first loop iteration
StepCall ==
    /\ AtInstr
    /\ Op = "CALL"
    /\ LET f == Charged IN
       IF OutOfGas(f) THEN RaiseVM("Out of gas")
       ELSE IF Len(Parts) < 4 THEN RaiseVM("CALL needs addr, gas, nargs")
       ELSE IF ~IsIntText(Parts[3]) \/ ~IsIntText(Parts[4])
            THEN RaisePy("ValueError")
       ELSE LET callee == Parts[2]
                gas_amount == IntOf(Parts[3])
                nargs == IntOf(Parts[4])
            IN
            IF CallGasShort(f.gas_remaining, gas_amount)
            THEN RaiseVM("Insufficient gas for CALL")
            ELSE IF Len(f.stack) < nargs
            THEN RaiseVM("Not enough args for CALL")
            ELSE Enter([f EXCEPT !.stack = DropN(@, Times(nargs)),
                                 !.gas_remaining = @ - gas_amount],
                       callee, gas_amount,
                       Reverse(PopN(f.stack, Times(nargs))))

\* a RETURN that is charged and counted but lets the frame run on
StepReturnSkipped ==
    /\ AtInstr
    /\ Op = "RETURN"
    /\ LET f == Charged IN
       IF OutOfGas(f) THEN RaiseVM("Out of gas")
       ELSE Continue(f, snapshot, call_trace)

StepReturn ==
    /\ AtInstr
    /\ Op = "RETURN"
    /\ LET f == Charged IN
       IF OutOfGas(f) THEN RaiseVM("Out of gas")
       ELSE ReturnFrom(f, IF f.stack # <<>> THEN f.stack[Len(f.stack)] ELSE 0)

StepUnknown ==
    /\ AtInstr
    /\ Op \notin {"PUSH", "POP", "ADD", "SUB", "MUL", "DIV", "LOAD", "SLOAD",
                  "STORE", "SSTORE", "LOG", "CALL", "RETURN"}
    /\ LET f == Charged IN
       IF OutOfGas(f) THEN RaiseVM("Out of gas")
       ELSE RaiseVM("Unknown op")

Next ==
    \/ DeployAny
    \/ ExecuteAny
    \/ StepBlank
    \/ StepEnd
    \/ StepPush
    \/ StepPop
    \/ StepArith
    \/ StepLoad
    \/ StepStore
    \/ StepLog
    \/ StepCall
    \/ StepReturn
    \/ StepUnknown

Spec == Init /\ [][Next]_vars

\* one iteration of the interpreter loop, whatever the instruction
Step ==
    \/ StepBlank
    \/ StepEnd
    \/ StepPush
    \/ StepPop
    \/ StepArith
    \/ StepLoad
    \/ StepStore
    \/ StepLog
    \/ StepCall
    \/ StepReturn
    \/ StepUnknown

\* execute_transaction is a synchronous call: once entered, the interpreter
\* keeps taking steps until it returns or raises
LiveSpec == Spec /\ WF_vars(Step)

------------------------------------------------------------------------------
(* Vocabulary of the properties                                            *)

\* the last operation was an execute_transaction and it has ended
TxDone == phase = "idle" /\ lastOp = "tx"

\* ... by returning a result dict
Reported == TxDone /\ raised = ""

Failed == Reported /\ ~result.success

Succeeded == Reported /\ result.success

HasCallEvent(trace) == \E i \in 1..Len(trace) : trace[i].type = "call"

HasLogEvent(trace) == \E i \in 1..Len(trace) : trace[i].type = "log"

CodeAt(a) == IF Deployed(a) THEN contracts[a].code ELSE <<>>

------------------------------------------------------------------------------
(* Properties                                                              *)

\* C1: when a transaction reports success = false, the storage of every
\* deployed contract is what it was when the transaction started, whatever
\* was staged by the root frame or by nested calls that had completed.
C1_Atomicity == Failed => Storages = pre

\* a failed transaction to R: R had staged a store, a nested call had
\* completed, and G already held committed storage
C1_Witness ==
    /\ Failed
    /\ tx.to = "R"
    /\ lastError = "Unknown op"
    /\ HasCallEvent(call_trace)
    /\ snapshot["R"] # pre["R"]
    /\ pre["G"] # EmptyMap

\* C2: execute_transaction never lets an exception escape: every ended
\* transaction has returned a result dict.
C2_NeverRaises == TxDone => raised = ""

\* C3: a failed transaction reports return None, gas_used equal to the
\* transaction's gas_limit and no opcode counts.
C3_FailureReport ==
    Failed =>
        /\ result.return = <<>>
        /\ result.gas_used = tx.gas_limit
        /\ result.op_counts = EmptyMap

\* a division by zero after seven cheap instructions, under a limit of 300
C3_Witness ==
    /\ Failed
    /\ lastError = "Division by zero"
    /\ tx.gas_limit = 300
    /\ HasLogEvent(call_trace)

\* C4: a failed transaction reports an empty call trace.
C4_EmptyTraceOnFailure == Failed => result.call_trace = <<>>


\* C5: after a successful transaction the storage of every contract is the
\* staged storage the execution ended with; a transaction that has just
\* started stages exactly the committed storage; contract A, sent one
\* argument x while its counter is c, returns c + x and leaves counter = c + x
\* (so args [7] and then [3] return 7 and then 10).
C5_FullCommit ==
    /\ Succeeded => Storages = snapshot
    /\ (phase = "running" /\ Len(frames) = 1 /\ frames[1].ip = 0)
          => (snapshot = Storages /\ pre = Storages)
    /\ (Reported /\ tx.to = "A" /\ CodeAt("A") = contract_a_code
            /\ Len(tx.args) = 1)
          => LET c == Get(pre["A"], "counter", 0) IN
             /\ result.success
             /\ result.return = <<c + tx.args[1]>>
             /\ contracts["A"].storage = ("counter" :> (c + tx.args[1]))

\* the second transaction: A holds counter = 7 and is sent [3]
C5_Witness ==
    /\ Succeeded
    /\ txCount = 2
    /\ tx.to = "A"
    /\ tx.args = <<3>>
    /\ CodeAt("A") = contract_a_code
    /\ pre["A"] = ("counter" :> 7)
    /\ result.return = <<10>>
    /\ contracts["A"].storage = ("counter" :> 10)

\* C6: a successful transaction with gas_limit >= 0 reports
\* gas_used = gas_limit - (remaining gas of the root frame), within
\* 0..gas_limit, and every call event has 0 <= gas_used <= gas_provided.
C6_GasConservation ==
    (Succeeded /\ tx.gas_limit >= 0) =>
        /\ result.gas_used = tx.gas_limit - rootLeft
        /\ 0 <= result.gas_used
        /\ result.gas_used <= tx.gas_limit
        /\ \A i \in 1..Len(result.call_trace) :
              result.call_trace[i].type = "call" =>
                  /\ 0 <= result.call_trace[i].gas_used
                  /\ result.call_trace[i].gas_used
                        <= result.call_trace[i].gas_provided

\* a step of World.deploy
IsDeployStep == phase = "idle" /\ lastOp' = "deploy" /\ vars' # vars

\* C7: a deploy either fails and changes nothing in the World, or adds one
\* address that was not deployed, with empty storage, and leaves every other
\* contract as it was; no step of any kind removes an address or changes
\* the code deployed at it.
C7_DeployOnce ==
    [][ /\ \A a \in DOMAIN contracts :
              /\ a \in DOMAIN contracts'
              /\ contracts'[a].code = contracts[a].code
              /\ contracts'[a].address = a
        /\ IsDeployStep =>
              \/ raised' = "ValueError" /\ contracts' = contracts
              \/ /\ raised' = ""
                 /\ \E a \in (DOMAIN contracts') \ (DOMAIN contracts) :
                       /\ DOMAIN contracts' = (DOMAIN contracts) \cup {a}
                       /\ contracts'[a].storage = EmptyMap
                 /\ \A a \in DOMAIN contracts : contracts'[a] = contracts[a]
      ]_vars

\* a deploy on a deployed address was refused while a contract held storage
C7_Witness ==
    /\ lastOp = "deploy"
    /\ raised = "ValueError"
    /\ \E a \in DOMAIN contracts : contracts[a].storage # EmptyMap

\* C8: with the demo's A and B deployed and A.counter = c, a transaction to B
\* with gas_limit 800 and no args succeeds, returns 10 * (c + 2), records one
\* call event {caller B, callee A, gas_provided 200, return c + 2} and
\* commits A.counter = c + 2 and B.myvalue = 10 * (c + 2).
C8_NestedCall ==
    (TxDone /\ tx.to = "B" /\ tx.gas_limit = 800 /\ tx.args = <<>>
        /\ CodeAt("A") = contract_a_code /\ CodeAt("B") = contract_b_code)
    => LET c == Get(pre["A"], "counter", 0) IN
       /\ Succeeded
       /\ result.return = <<10 * (c + 2)>>
       /\ Len(result.call_trace) = 1
       /\ result.call_trace[1].type = "call"
       /\ result.call_trace[1].caller = "B"
       /\ result.call_trace[1].callee = "A"
       /\ result.call_trace[1].gas_provided = 200
       /\ result.call_trace[1].return = c + 2
       /\ Get(contracts["A"].storage, "counter", 0) = c + 2
       /\ Get(contracts["B"].storage, "myvalue", 0) = 10 * (c + 2)

\* B run after A's counter was committed as 7
C8_Witness ==
    /\ Succeeded
    /\ tx.to = "B"
    /\ tx.gas_limit = 800
    /\ tx.args = <<>>
    /\ CodeAt("A") = contract_a_code
    /\ CodeAt("B") = contract_b_code
    /\ pre["A"] = ("counter" :> 7)
    /\ result.return = <<90>>

\* the top frame is at a well-formed CALL whose base cost of 10 it can pay
AtPayableCall ==
    /\ AtInstr
    /\ Op = "CALL"
    /\ Top.gas_remaining >= 10
    /\ Len(Parts) >= 4
    /\ IsIntText(Parts[3])
    /\ IsIntText(Parts[4])

\* C9: at a CALL, with r the frame's remaining gas after the base cost of 10:
\* if gas_amount > r the transaction fails there, no frame is started for the
\* callee, the trace gains no event and the World is unchanged; if
\* gas_amount = r the check passes, and with enough arguments and a deployed
\* callee the callee's frame starts with budget gas_amount.
C9_CallGasCheck ==
    [][ AtPayableCall =>
          LET r == Top.gas_remaining - 10
              g == IntOf(Parts[3])
              n == IntOf(Parts[4])
          IN
          /\ g > r =>
                /\ phase' = "idle"
                /\ frames' = <<>>
                /\ raised' = ""
                /\ ~result'.success
                /\ lastError' = "Insufficient gas for CALL"
                /\ result'.call_trace = call_trace
                /\ contracts' = contracts
                /\ Storages' = pre
          /\ g = r =>
                /\ lastError' # "Insufficient gas for CALL"
                /\ (Len(Top.stack) >= n /\ Deployed(Parts[2])) =>
                      /\ Len(frames') = Len(frames) + 1
                      /\ frames'[Len(frames')].addr = Parts[2]
                      /\ frames'[Len(frames')].gas_limit = g
                      /\ frames'[Len(frames')].ip = 0
                      /\ frames'[Len(frames)].gas_remaining = 0
      ]_vars

\* a first CALL E 20 0 passed with exactly 20 remaining and returned; the
\* second found 10 remaining and failed the transaction
C9_Witness ==
    /\ Failed
    /\ lastError = "Insufficient gas for CALL"
    /\ tx.to = "C"
    /\ tx.gas_limit = 30
    /\ Len(result.call_trace) = 1
    /\ result.call_trace[1].gas_provided = 20

\* C10: a LOAD of a key absent from the frame's staged storage pushes 0 and
\* changes neither staged storage, World nor trace; after a successful
\* transaction to a contract that only LOADs key k, the result is 0, the
\* committed storage has no key k and every storage is what it was.
C10_LoadAbsent ==
    /\ [][ (AtInstr /\ Op = "LOAD" /\ Len(Parts) >= 2
               /\ Top.gas_remaining >= 5
               /\ Parts[2] \notin DOMAIN snapshot[Top.addr])
           => /\ phase' = "running"
              /\ Len(frames') = Len(frames)
              /\ frames'[Len(frames)].stack = Append(Top.stack, 0)
              /\ snapshot' = snapshot
              /\ contracts' = contracts
              /\ call_trace' = call_trace
         ]_vars
    /\ [](( Succeeded /\ tx.to = "E" /\ CodeAt("E") = load_code )
            => /\ result.return = <<0>>
               /\ "k" \notin DOMAIN contracts["E"].storage
               /\ Storages = pre)

\* the two LOADs of load_code ran and the transaction succeeded
C10_Witness ==
    /\ Succeeded
    /\ tx.to = "E"
    /\ CodeAt("E") = load_code
    /\ Get(result.op_counts, "LOAD", 0) = 2
    /\ result.return = <<0>>


\* C11: SLOAD and SSTORE behave and are charged as LOAD and STORE: the
\* program PUSH 1, SSTORE j, SLOAD j, RETURN and the same program written
\* with STORE and LOAD succeed under the same gas limits (those of at least
\* 1 + 20 + 5 + 0 = 26), return 1, commit j = 1 and report gas_used = 26.
C11_AliasesSameGas ==
    (Reported /\ tx.to = "P" /\ CodeAt("P") \in {plain_code, alias_code}) =>
        /\ result.success <=> tx.gas_limit >= 26
        /\ result.success =>
              /\ result.return = <<1>>
              /\ result.gas_used = 26
              /\ contracts["P"].storage = ("j" :> 1)

\* the same statement for the LOAD / STORE program alone
PlainProgramGas ==
    (Reported /\ tx.to = "P" /\ CodeAt("P") = plain_code) =>
        /\ result.success <=> tx.gas_limit >= 26
        /\ result.success =>
              /\ result.return = <<1>>
              /\ result.gas_used = 26
              /\ contracts["P"].storage = ("j" :> 1)


\* the gas that charge() debits for the opcodes counted in `counts`
RECURSIVE SumCost(_, _)
SumCost(counts, keys) ==
    IF keys = {} THEN 0
    ELSE LET k == CHOOSE x \in keys : TRUE IN
         counts[k] * OpCost(k) + SumCost(counts, keys \ {k})

\* C12: for a successful transaction, gas_used is the sum over the reported
\* opcode counts (root and nested frames together) of count times the cost
\* charge() debits for that opcode: reserving and refunding gas around CALL
\* neither creates nor loses gas.
C12_GasIsSumOfCosts ==
    Succeeded =>
        result.gas_used = SumCost(result.op_counts, DOMAIN result.op_counts)

\* the demo's B: 75 gas over the frames of B and A, one nested call
C12_Witness ==
    /\ Succeeded
    /\ tx.to = "B"
    /\ HasCallEvent(result.call_trace)
    /\ result.gas_used = 75
    /\ Get(result.op_counts, "STORE", 0) = 2


\* C13: at an instruction of cost c in a frame with r gas remaining: if
\* r < c the transaction fails with "Out of gas" and the step changes neither
\* staged storage, World nor trace, whatever the operands and the stack; if
\* r >= c the step does not fail with "Out of gas", the opcode is counted,
\* and a frame that carries on holds r - c (0 when c = r).
C13_ChargeBeforeEffect ==
    [][ AtInstr =>
          LET c == OpCost(Op)
              r == Top.gas_remaining
              n == Len(frames)
          IN
          /\ r < c =>
                /\ phase' = "idle"
                /\ frames' = <<>>
                /\ raised' = ""
                /\ ~result'.success
                /\ lastError' = "Out of gas"
                /\ snapshot' = snapshot
                /\ call_trace' = call_trace
                /\ contracts' = contracts
          /\ r >= c =>
                /\ lastError' # "Out of gas"
                /\ (phase' = "running" /\ Len(frames') = n) =>
                      /\ frames'[n].gas_remaining = r - c
                      /\ frames'[n].op_counts[Op]
                            = Get(Top.op_counts, Op, 0) + 1
      ]_vars

\* under a limit of 23 the LOG ran with exactly its cost remaining, and the
\* POP that followed, on an empty stack, failed for gas
C13_Witness ==
    /\ Failed
    /\ lastError = "Out of gas"
    /\ tx.to = "F"
    /\ tx.gas_limit = 23
    /\ CodeAt("F") = Faulty(<<I1("POP")>>)
    /\ Len(call_trace) = 1


\* the top frame is about to return: end of code, or a RETURN it can pay
AtReturn ==
    /\ Running
    /\ \/ Top.ip >= Len(Code)
       \/ AtInstr /\ Op = "RETURN" /\ Top.gas_remaining >= 0

\* what the frame returns: the top of its stack, or 0 if the stack is empty
TopOrZero(stack) == IF stack = <<>> THEN 0 ELSE stack[Len(stack)]

\* C14: a CALL with arg_count n >= 0 whose checks pass starts the callee on
\* exactly the caller's top n values, in the order they were pushed, and
\* removes them from the caller's stack; with fewer than n values the
\* transaction fails; when the callee returns, the caller's stack is what it
\* kept with the callee's return value on top.
C14_CallArguments ==
    [][ /\ AtPayableCall =>
              LET r == Top.gas_remaining - 10
                  g == IntOf(Parts[3])
                  n == IntOf(Parts[4])
                  k == Len(Top.stack)
                  d == Len(frames)
              IN
              /\ (g <= r /\ n >= 0 /\ k >= n /\ Deployed(Parts[2])) =>
                    /\ Len(frames') = d + 1
                    /\ frames'[d + 1].stack
                          = [i \in 1..n |-> Top.stack[k - n + i]]
                    /\ frames'[d].stack
                          = [i \in 1..(k - n) |-> Top.stack[i]]
              /\ (g <= r /\ k < n) =>
                    /\ phase' = "idle"
                    /\ ~result'.success
                    /\ lastError' = "Not enough args for CALL"
        /\ (AtReturn /\ Len(frames) >= 2) =>
              LET d == Len(frames) IN
              /\ Len(frames') = d - 1
              /\ frames'[d - 1].stack
                    = Append(frames[d - 1].stack, TopOrZero(Top.stack))
      ]_vars

\* T pushed 1 2 3 and called M with two arguments: M stored 2 - 3, T stored
\* M's return value and returned the 1 it had kept
C14_Witness ==
    /\ Succeeded
    /\ tx.to = "T"
    /\ tx.args = <<>>
    /\ contracts["M"].storage = ("t" :> (0 - 1))
    /\ contracts["T"].storage = ("t" :> (0 - 10))
    /\ result.return = <<1>>


CallEventCount(trace) ==
    Cardinality({i \in 1..Len(trace) : trace[i].type = "call"})

\* C15: the trace only grows at its end: a LOG appends its log event when
\* it executes, a callee's return appends the call event of its CALL (so
\* after everything produced inside the callee and before anything the
\* caller produces later), and no other step touches the trace; a
\* successful result lists as many call events as CALL instructions were
\* executed; the transaction to T lists N's log, the call M -> N, M's log
\* and the call T -> M in that order.
C15_TraceOrder ==
    /\ [][ Running =>
             LET d == Len(frames) IN
             IF AtInstr /\ Op = "LOG" /\ Top.gas_remaining >= 1
                   /\ Top.stack # <<>>
             THEN call_trace' = Append(call_trace,
                     [type |-> "log", contract |-> Top.addr,
                      value |-> Top.stack[Len(Top.stack)]])
             ELSE IF AtReturn /\ d >= 2
             THEN call_trace' = Append(call_trace,
                     [type |-> "call", caller |-> frames[d - 1].addr,
                      callee |-> Top.addr, gas_provided |-> Top.gas_limit,
                      gas_used |-> Top.gas_limit - Top.gas_remaining,
                      return |-> TopOrZero(Top.stack)])
             ELSE call_trace' = call_trace
         ]_vars
    /\ [](Succeeded =>
             /\ result.call_trace = call_trace
             /\ CallEventCount(result.call_trace)
                   = Get(result.op_counts, "CALL", 0))
    /\ []((Succeeded /\ tx.to = "T") =>
             result.call_trace =
                <<[type |-> "log", contract |-> "N", value |-> 8],
                  [type |-> "call", caller |-> "M", callee |-> "N",
                   gas_provided |-> 30, gas_used |-> 24, return |-> 6],
                  [type |-> "log", contract |-> "M", value |-> 6],
                  [type |-> "call", caller |-> "T", callee |-> "M",
                   gas_provided |-> 100, gas_used |-> 69,
                   return |-> 0 - 10]>>)

\* the transaction to T succeeded with its four events
C15_Witness ==
    /\ Succeeded
    /\ tx.to = "T"
    /\ Len(result.call_trace) = 4
    /\ Get(result.op_counts, "CALL", 0) = 2
    /\ Get(result.op_counts, "LOG", 0) = 2


\* every frame but the first got at most its caller's budget less the
\* base cost of CALL, which bounds the number of frames by the gas limit
C16_DepthBound ==
    (Running /\ tx.gas_limit >= 0) =>
        /\ \A i \in 2..Len(frames) :
              frames[i].gas_limit <= frames[i - 1].gas_limit - OPCOST["CALL"]
        /\ Len(frames) <= (tx.gas_limit \div 10) + 1

\* a running transaction comes to an end
C16_Terminates == Running ~> ~Running

\* C16: a transaction with gas_limit >= 0 terminates, and it does so with
\* a success or a failure result, self-calls and callbacks included; a
\* nested frame's budget is at most its caller's budget minus 10 and there
\* are never more than floor(gas_limit / 10) + 1 frames.
C16_Termination ==
    /\ []C16_DepthBound
    /\ C16_Terminates
    /\ [][ (Running /\ tx.gas_limit >= 0 /\ ~Running')
              => (Succeeded' \/ Failed') ]_vars

\* the bound is met: three frames under a gas limit of 20, the innermost
\* being a callback into the root contract
C16_DepthWitness ==
    /\ Running
    /\ tx.gas_limit = 20
    /\ Len(frames) = 3
    /\ frames[1].addr = "U"
    /\ frames[3].addr = "U"


\* the top frame is about to complete a STORE / a LOAD
AtStore ==
    /\ AtInstr
    /\ Op \in {"STORE", "SSTORE"}
    /\ Top.gas_remaining >= OpCost(Op)
    /\ Len(Parts) >= 2
    /\ Top.stack # <<>>

AtLoad ==
    /\ AtInstr
    /\ Op \in {"LOAD", "SLOAD"}
    /\ Top.gas_remaining >= OpCost(Op)
    /\ Len(Parts) >= 2

\* C17: a STORE changes one key of the staged storage of the contract the
\* frame executes and nothing of any other contract (its caller's
\* included); a LOAD pushes what that contract's staged storage holds under
\* the key (0 if absent); no other step changes staged storage.  A nested
\* frame of the same contract works on the same storage: called by S, S
\* reads the 1 its caller stored under n and its own store of 2 is what n
\* holds for the caller.
C17_StorageIsolation ==
    /\ [][ Running =>
             LET f == Top
                 mine == snapshot[f.addr]
             IN  IF AtStore
                 THEN /\ DOMAIN snapshot' = DOMAIN snapshot
                      /\ \A a \in DOMAIN snapshot \ {f.addr} :
                            snapshot'[a] = snapshot[a]
                      /\ DOMAIN snapshot'[f.addr]
                            = DOMAIN mine \cup {Parts[2]}
                      /\ snapshot'[f.addr][Parts[2]] = f.stack[Len(f.stack)]
                      /\ \A k \in DOMAIN mine \ {Parts[2]} :
                            snapshot'[f.addr][k] = mine[k]
                 ELSE /\ snapshot' = snapshot
                      /\ AtLoad =>
                            frames'[Len(frames)].stack =
                               Append(f.stack,
                                      IF Parts[2] \in DOMAIN mine
                                      THEN mine[Parts[2]] ELSE 0)
         ]_vars
    /\ []((Running /\ Len(frames) = 2 /\ frames[1].addr = "S"
              /\ Top.addr = "S" /\ pre["S"] = EmptyMap) =>
             /\ Top.ip = 1 => Top.stack = <<1>>
             /\ snapshot["S"]["n"] = (IF Top.ip >= 4 THEN 2 ELSE 1))

\* M, called by T, has stored under the key t that T and N use as well,
\* and N, called by M, has stored under it too
C17_Witness ==
    /\ Running
    /\ DOMAIN snapshot = {"T", "M", "N"}
    /\ Len(frames) = 2
    /\ frames[1].addr = "T"
    /\ Top.addr = "M"
    /\ snapshot["T"] = EmptyMap
    /\ snapshot["M"] = [k \in {"t"} |-> 0 - 1]
    /\ snapshot["N"] = [k \in {"t"} |-> 5]

\* S, called by S, has stored 2 under n while its caller is still active
C17_SharedWitness ==
    /\ Running
    /\ Len(frames) = 2
    /\ frames[1].addr = "S"
    /\ Top.addr = "S"
    /\ pre["S"] = EmptyMap
    /\ Top.ip = 4
    /\ snapshot["S"] = [k \in {"n"} |-> 2]

\* a frame of a contract that has an active frame further down never
\* completes: it reaches the CALL that nested it with less gas than that
\* CALL hands over
C17_NestedSameNeverReturns ==
    AtReturn => \A i \in 1..(Len(frames) - 1) : frames[i].addr # Top.addr


\* C18: while a transaction runs, whatever was stored by whichever frame,
\* the storage of every contract in World is what it was when the
\* transaction started; a step changes World only when it is the
\* successful return of the root frame, and then World takes the staged
\* storage of every contract at once, code and addresses untouched.
C18_CommitOnly ==
    /\ [](Running => Storages = pre)
    /\ [][ Running =>
             IF Len(frames) = 1 /\ AtReturn
             THEN /\ Storages' = snapshot
                  /\ DOMAIN contracts' = DOMAIN contracts
                  /\ \A a \in DOMAIN contracts :
                        /\ contracts'[a].code = contracts[a].code
                        /\ contracts'[a].address = contracts[a].address
             ELSE contracts' = contracts
         ]_vars

\* T is waiting for M, which has stored and whose callee N has stored and
\* returned: two contracts have staged writes and World has none of them
C18_Witness ==
    /\ Running
    /\ Len(frames) = 2
    /\ frames[1].addr = "T"
    /\ Top.addr = "M"
    /\ "N" \in DOMAIN snapshot
    /\ snapshot["M"] # pre["M"]
    /\ snapshot["N"] # pre["N"]
    /\ Storages = pre
    /\ Top.ip >= 3


\* the loop is at a line that is empty once stripped
AtBlank == Running /\ Top.ip < Len(Code) /\ Strip(Code[Top.ip + 1]) = <<>>

\* the opcode counts of a frame that ends now: a RETURN counts itself
EndCounts(f) ==
    IF f.ip < Len(Code)
    THEN Put(f.op_counts, "RETURN", Get(f.op_counts, "RETURN", 0) + 1)
    ELSE f.op_counts

\* C19: a frame whose next line is RETURN (its budget not overdrawn) or
\* whose ip is past the last line ends in that very step, whatever lines
\* follow: the root frame's transaction succeeds with the top of the stack
\* (0 if the stack is empty) as return value, budget minus remaining gas as
\* gas_used and no opcode counted beyond the RETURN; a nested frame is
\* removed and its call event carries the same two values.  A blank line
\* only moves ip: no gas, no opcode count, no other change.  The
\* transaction to T returns 1 from its RETURN and never runs the PUSH and
\* STORE written after it.
C19_FrameEnd ==
    /\ [][ AtReturn =>
             LET f == Top
                 d == Len(frames)
             IN  IF d = 1
                 THEN /\ Succeeded'
                      /\ result'.return = <<TopOrZero(f.stack)>>
                      /\ result'.gas_used = f.gas_limit - f.gas_remaining
                      /\ result'.op_counts = EndCounts(f)
                 ELSE /\ Len(frames') = d - 1
                      /\ frames'[d - 1].ip = frames[d - 1].ip + 1
                      /\ LET e == call_trace'[Len(call_trace')] IN
                         /\ e.type = "call"
                         /\ e.callee = f.addr
                         /\ e.return = TopOrZero(f.stack)
                         /\ e.gas_used = f.gas_limit - f.gas_remaining
         ]_vars
    /\ [][ AtBlank =>
             /\ frames' = [frames EXCEPT ![Len(frames)].ip = @ + 1]
             /\ UNCHANGED <<contracts, phase, snapshot, call_trace, result>>
         ]_vars
    /\ []((Succeeded /\ tx.to = "T") =>
             /\ result.return = <<1>>
             /\ result.gas_used = 102
             /\ Get(result.op_counts, "PUSH", 0) = 7
             /\ Get(result.op_counts, "STORE", 0) = 3
             /\ Get(result.op_counts, "RETURN", 0) = 1
             /\ DOMAIN contracts["T"].storage = {"t"})

\* T returned from its RETURN, two lines before the end of its code, after
\* M and N had ended by running off their last line, N across a blank line
C19_Witness ==
    /\ Succeeded
    /\ tx.to = "T"
    /\ rootLeft = 98
    /\ Len(contracts["T"].code) = 8
    /\ Len(result.call_trace) = 4
    /\ result.call_trace[2].return = 6
    /\ result.call_trace[2].gas_used = 24


\* q is the floor of b / a: b = q * a + r with r between 0 and a, 0
\* included and a excluded, on whichever side of 0 the divisor a lies
IsFloorQuotient(q, b, a) ==
    LET r == b - q * a IN
    IF a > 0 THEN 0 <= r /\ r < a ELSE a < r /\ r <= 0

\* the top frame is at an arithmetic instruction it can pay for
AtArith == AtInstr /\ Op \in ArithOps /\ Top.gas_remaining >= OpCost(Op)

\* C20: an arithmetic instruction with a on top of the stack and b beneath
\* replaces the two by b+a (ADD), b-a (SUB), b*a (MUL) or the floor of b/a
\* (DIV), whatever the signs; DIV with a = 0 fails the transaction and
\* World stays as it was before the transaction; with fewer than two values
\* on the stack the transaction fails.
C20_Arithmetic ==
    /\ [][ AtArith =>
             LET s == Top.stack
                 n == Len(s)
                 a == s[n]
                 b == s[n - 1]
             IN  IF n < 2 THEN Failed'
                 ELSE IF Op = "DIV" /\ a = 0
                 THEN Failed' /\ contracts' = contracts /\ Storages' = pre
                 ELSE LET t == frames'[Len(frames)].stack
                          v == t[n - 1]
                      IN  /\ Len(frames') = Len(frames)
                          /\ Len(t) = n - 1
                          /\ SubSeq(t, 1, n - 2) = SubSeq(s, 1, n - 2)
                          /\ Op = "ADD" => v = b + a
                          /\ Op = "SUB" => v = b - a
                          /\ Op = "MUL" => v = b * a
                          /\ Op = "DIV" => IsFloorQuotient(v, b, a)
         ]_vars
    /\ []((Succeeded /\ tx.to = "X" /\ CodeAt("X") = calc_code("DIV")) =>
             /\ tx.args = <<7, 2>> => result.return = <<3>>
             /\ tx.args = <<7, 0 - 2>> => result.return = <<0 - 4>>
             /\ tx.args = <<0 - 7, 2>> => result.return = <<0 - 4>>
             /\ tx.args = <<0 - 7, 0 - 2>> => result.return = <<3>>
             /\ tx.args = <<0, 3>> => result.return = <<0>>
             /\ tx.args # <<1, 0>>)
    /\ []((Succeeded /\ tx.to = "X" /\ CodeAt("X") = calc_code("SUB")) =>
             /\ tx.args = <<7, 0 - 2>> => result.return = <<9>>
             /\ tx.args = <<0, 3>> => result.return = <<0 - 3>>
             /\ tx.args = <<4, 7, 2>> => result.return = <<5>>)

\* 7 divided by -2 has given -4, and the 9 staged under w was committed
C20_Witness ==
    /\ Succeeded
    /\ tx.to = "X"
    /\ CodeAt("X") = calc_code("DIV")
    /\ tx.args = <<7, 0 - 2>>
    /\ result.return = <<0 - 4>>
    /\ contracts["X"].storage = [k \in {"w"} |-> 9]

\* 1 divided by 0 has failed the transaction, the staged w discarded
C20_DivZeroWitness ==
    /\ Failed
    /\ lastError = "Division by zero"
    /\ tx.args = <<1, 0>>
    /\ snapshot["X"] = [k \in {"w"} |-> 9]
    /\ contracts["X"].storage = EmptyMap

====
